---- MODULE Spec2Model ----
(***************************************************************************)
(* Model of alphafold3/model/components/mapping.py: sharded_apply,         *)
(* sharded_map and inference_subbatch.                                     *)
(*                                                                         *)
(* One call of one public entry point is followed from the call to its     *)
(* return (or its exception).  Arrays are sequences of rows along the      *)
(* mapped axis 0 (a row stands for everything on the other axes); Python   *)
(* indices are 0-based and are shifted by one where a sequence is read.    *)
(***************************************************************************)
EXTENDS Integers, Sequences, FiniteSets, TLC

\* ------------------------------------------------------------- bounds
MaxBatch == 10
MaxShard == MaxBatch + 1

\* ------------------------------------------------------ Python values
\* A Python value that is an int, None or the PROXY sentinel object.
PyInt(n) == [tag |-> "int", v |-> n]
None == [tag |-> "None", v |-> 0]
PROXY == [tag |-> "PROXY", v |-> 0]

\* No value: a name not bound yet, or a function that has not returned.
Unset == [dtype |-> "unset", shape |-> <<>>, data |-> <<>>]

Min(a, b) == IF a < b THEN a ELSE b
Max(a, b) == IF a > b THEN a ELSE b
Clamp(lo, v, hi) == Max(lo, Min(v, hi))

RECURSIVE MaxOf(_)
MaxOf(s) == IF Len(s) = 1 THEN s[1] ELSE Max(s[1], MaxOf(Tail(s)))

\* ------------------------------------------------------------- inputs
\* The batched argument: batch rows, told apart by their values.
Inputs(n) == { [i \in 1..n |-> i], [i \in 1..n |-> 2 * (n + 1 - i)] }
\* The broadcast / non-batched argument.
Broadcasts == { <<3, 4>>, <<6>> }
\* The wrapped functions fn / module the caller may pass.
FnKinds == { "pointwise", "slicewise", "repeat" }

Weight(b) == b[1] + Len(b)

\* fn(xs, b): what the wrapped function computes on a batch (or slice) xs
\* and the broadcast argument b.
\*   pointwise: every row on its own;
\*   slicewise: every row, plus a term that depends on the slice it came in;
\*   repeat:    every row twice (the output is twice as long as the input).
FnData(kind, xs, b) ==
  CASE kind = "pointwise" -> [i \in 1..Len(xs) |-> 2 * xs[i] + Weight(b)]
    [] kind = "slicewise" -> [i \in 1..Len(xs) |-> xs[i] + 100 * Len(xs)]
    [] kind = "repeat" ->
         [j \in 1..(2 * Len(xs)) |-> xs[(j + 1) \div 2] + Weight(b)]

FnDtype(kind) == IF kind = "slicewise" THEN "int32" ELSE "float32"

\* The array fn returns: dtype, shape (mapped axis first, then one more
\* axis, as wide as b) and the rows.
Fn(kind, xs, b) ==
  [dtype |-> FnDtype(kind),
   shape |-> << Len(FnData(kind, xs, b)), Len(b) >>,
   data |-> FnData(kind, xs, b)]

\* --------------------------------------------------- array primitives
\* jax.lax.dynamic_slice_in_dim on axis 0: the start is clamped so that the
\* slice lies inside the array.
dynamic_slice_in_dim(array, i, slice_size) ==
  LET s == Clamp(0, i, Len(array) - slice_size)
  IN SubSeq(array, s + 1, s + slice_size)

\* jax.lax.dynamic_update_slice_in_dim on axis 0, with the argument order of
\* the local wrapper (full_array, update, axis, i); the start is clamped.
dynamic_update_slice_in_dim(full_array, update, i) ==
  LET s == Clamp(0, i, Len(full_array) - Len(update))
  IN [j \in 1..Len(full_array) |->
        IF s < j /\ j <= s + Len(update) THEN update[j - s] ELSE full_array[j]]

\* jnp.arange(start, stop, step) as a sequence.
arange(start, stop, step) ==
  LET count == IF stop > start THEN (stop - start + step - 1) \div step ELSE 0
  IN [k \in 1..count |-> start + (k - 1) * step]

\* jnp.zeros(shape): rows of zeros along the mapped axis.
zeros(shape) == [j \in 1..shape[1] |-> 0]

\* ------------------------------------------------------ module helpers
\* Variant: the PROXY test is lost, a broadcast leaf is sliced like the rest.
_maybe_slice_all(array, i, slice_size, axis) ==
  dynamic_slice_in_dim(array, i, Min(slice_size, Len(array)))

_maybe_slice(array, i, slice_size, axis) ==
  IF axis = PROXY THEN array
  ELSE dynamic_slice_in_dim(array, i, slice_size)

_maybe_get_size(array, axis) ==
  IF axis = PROXY THEN -1 ELSE Len(array)

\* An axis specification: one int for every leaf, or a tuple with one entry
\* (an int or None) per leaf.
AxesInt(n) == [tag |-> "int", v |-> n, leaves |-> <<>>]
AxesTree(l) == [tag |-> "tree", v |-> 0, leaves |-> l]

\* _expand_axes: an int is given to every leaf of values, a tuple is taken
\* leaf by leaf; None becomes PROXY.
_expand_axes(axes, values) ==
  LET flat_axes == IF axes.tag = "tree"
                   THEN axes.leaves
                   ELSE [k \in 1..Len(values) |-> PyInt(axes.v)]
  IN [k \in 1..Len(flat_axes) |->
        IF flat_axes[k] = None THEN PROXY ELSE flat_axes[k]]

\* -------------------------------------------------------------- state
VARIABLES
  running_init,      \* hk.running_init(): the ambient initialisation flag
  pc,                \* where the call is
  entry,             \* the public function called
  fnKind,            \* the function fn / module passed in
  callee,            \* what `fun` is bound to inside sharded_apply
  new_out_axes,      \* argument of sharded_apply
  shard_size,        \* shard_size / subbatch_size argument: None or an int
  in_axes,           \* in_axes argument
  out_axes,          \* out_axes argument
  args,              \* *args the returned callable is called with
  nonbatched_args,   \* inference_subbatch's nonbatched_args
  in_axes_, in_size, num_extra_shards, last_shard_size,
  out_dtypes, out_shapes, out_axes_,
  slice_starts, scan_i, outputs,
  probes,            \* (start, size) of every hk.eval_shape probe
  shards,            \* (start, size) of every compute_shard executed
  fn_calls,          \* the arguments of every real invocation of fn / module
  scans,             \* the index array of every hk.scan invocation
  returned,          \* the value returned to the caller
  error              \* the exception raised

config == << entry, fnKind, callee, new_out_axes, shard_size, in_axes,
             out_axes, args, nonbatched_args >>
plan == << in_axes_, in_size, num_extra_shards, last_shard_size >>
probe == << out_dtypes, out_shapes, out_axes_ >>
loop == << slice_starts, scan_i, outputs >>
logs == << probes, shards, fn_calls, scans >>
vars == << running_init, pc, config, plan, probe, loop, logs, returned, error >>

Init ==
  /\ running_init \in BOOLEAN
  /\ pc = "idle"
  /\ entry = "none"
  /\ fnKind = "none"
  /\ callee = "none"
  /\ new_out_axes = FALSE
  /\ shard_size = None
  /\ in_axes = AxesInt(0)
  /\ out_axes = AxesInt(0)
  /\ args = <<>>
  /\ nonbatched_args = <<>>
  /\ in_axes_ = <<>>
  /\ in_size = 0
  /\ num_extra_shards = 0
  /\ last_shard_size = 0
  /\ out_dtypes = "unset"
  /\ out_shapes = <<>>
  /\ out_axes_ = <<>>
  /\ slice_starts = <<>>
  /\ scan_i = 0
  /\ outputs = Unset
  /\ probes = <<>>
  /\ shards = <<>>
  /\ fn_calls = <<>>
  /\ scans = <<>>
  /\ returned = Unset
  /\ error = "none"

\* ---------------------------------------------------- calling `fun`
\* The positional arguments fn / module finally receives: run_module
\* (inference_subbatch) appends nonbatched_args, any other callee passes its
\* arguments on.
run_module(batched) ==
  IF callee = "run_module" THEN batched \o nonbatched_args ELSE batched

\* fun(*input_slice): the array the callee returns.
fun(input_slice) ==
  Fn(fnKind, run_module(input_slice)[1], run_module(input_slice)[2])

\* The tree of argument slices built inside apply_fun_to_slice.
input_slice(slice_start, slice_size) ==
  [k \in 1..Len(args) |->
     _maybe_slice(args[k], slice_start, slice_size, in_axes_[k])]

apply_fun_to_slice(slice_start, slice_size) ==
  fun(input_slice(slice_start, slice_size))

\* hk.eval_shape(partial(apply_fun_to_slice, start, size)): shape and dtype.
eval_shape(slice_start, slice_size) ==
  [shape |-> apply_fun_to_slice(slice_start, slice_size).shape,
   dtype |-> apply_fun_to_slice(slice_start, slice_size).dtype]

\* ------------------------------------------------------------ planner
\* Variant: the shard count without the "- 1".
num_extra_shards_floor(size, shard) == size \div shard

num_extra_shards_of(size, shard) == (size - 1) \div shard

last_shard_size_of(size, shard) ==
  IF size % shard = 0 THEN shard ELSE size % shard

\* Variant: the remainder shard is counted as one more full shard.
make_output_shape_no_remainder(axis, shard_shape, remainder_shape) ==
  SubSeq(shard_shape, 1, axis)
    \o << shard_shape[axis + 1] * (num_extra_shards + 1) >>
    \o SubSeq(shard_shape, axis + 2, Len(shard_shape))

make_output_shape(axis, shard_shape, remainder_shape) ==
  SubSeq(shard_shape, 1, axis)
    \o << shard_shape[axis + 1] * num_extra_shards + remainder_shape[axis + 1] >>
    \o SubSeq(shard_shape, axis + 2, Len(shard_shape))

\* Variant: the "+ 1" of the stop is lost.
slice_starts_short(size, shard) == arange(0, size - shard, shard)

slice_starts_of(size, shard) == arange(0, size - shard + 1, shard)

\* Variant: the result is written at offset 0 instead of slice_start.
compute_shard_at_zero(outs, slice_start, slice_size) ==
  [outs EXCEPT !.data =
     dynamic_update_slice_in_dim(
       outs.data, apply_fun_to_slice(slice_start, slice_size).data, 0)]

\* compute_shard(outputs, slice_start, slice_size): the buffer after the
\* slice's result has been written at slice_start.
compute_shard(outs, slice_start, slice_size) ==
  [outs EXCEPT !.data =
     dynamic_update_slice_in_dim(
       outs.data, apply_fun_to_slice(slice_start, slice_size).data, slice_start)]

\* ------------------------------------------------------ entry points
\* Variant: the shard_size test comes before the new_out_axes test.
sharded_apply_none_first(shard_size_arg, in_axes_arg, out_axes_arg, new_out_axes_arg) ==
  /\ shard_size' = shard_size_arg
  /\ in_axes' = in_axes_arg
  /\ out_axes' = out_axes_arg
  /\ new_out_axes' = new_out_axes_arg
  /\ IF shard_size_arg = None
     THEN pc' = "returned_fun" /\ error' = error
     ELSE IF new_out_axes_arg
     THEN pc' = "raised" /\ error' = "NotImplementedError"
     ELSE pc' = "returned_mapped_fn" /\ error' = error

\* Variant: shard_size None is not tested, mapped_fn is returned always.
sharded_apply_wraps_none(shard_size_arg, in_axes_arg, out_axes_arg, new_out_axes_arg) ==
  /\ shard_size' = shard_size_arg
  /\ in_axes' = in_axes_arg
  /\ out_axes' = out_axes_arg
  /\ new_out_axes' = new_out_axes_arg
  /\ IF new_out_axes_arg
     THEN pc' = "raised" /\ error' = "NotImplementedError"
     ELSE pc' = "returned_mapped_fn" /\ error' = error

\* sharded_apply(fun, shard_size, in_axes, out_axes, new_out_axes): raises,
\* returns fun itself, or returns mapped_fn.
sharded_apply(shard_size_arg, in_axes_arg, out_axes_arg, new_out_axes_arg) ==
  /\ shard_size' = shard_size_arg
  /\ in_axes' = in_axes_arg
  /\ out_axes' = out_axes_arg
  /\ new_out_axes' = new_out_axes_arg
  /\ IF new_out_axes_arg
     THEN pc' = "raised" /\ error' = "NotImplementedError"
     ELSE IF shard_size_arg = None
     THEN pc' = "returned_fun" /\ error' = error
     ELSE pc' = "returned_mapped_fn" /\ error' = error

\* Variant: hk.running_init() is not consulted.
sharded_map_always_sharded(shard_size_arg, in_axes_arg, out_axes_arg) ==
  /\ callee' = "hk.vmap(split_rng=True)"
  /\ sharded_apply(shard_size_arg, in_axes_arg, out_axes_arg, FALSE)

\* sharded_map(fun, shard_size, in_axes, out_axes).
sharded_map(shard_size_arg, in_axes_arg, out_axes_arg) ==
  IF running_init
  THEN /\ callee' = "hk.vmap(split_rng=False)"
       /\ shard_size' = shard_size_arg
       /\ in_axes' = in_axes_arg
       /\ out_axes' = out_axes_arg
       /\ new_out_axes' = FALSE
       /\ pc' = "returned_fun"
       /\ error' = error
  ELSE /\ callee' = "hk.vmap(split_rng=True)"
       /\ sharded_apply(shard_size_arg, in_axes_arg, out_axes_arg, FALSE)

\* Variant: the assert comes after the initialisation-mode branch, which
\* then calls module on the non-batched arguments alone.
inference_subbatch_late_assert(subbatch_size, batched, nonbatched, input_subbatch_dim) ==
  /\ args' = batched
  /\ nonbatched_args' = nonbatched
  /\ shard_size' = PyInt(subbatch_size)
  /\ in_axes' = AxesInt(input_subbatch_dim)
  /\ out_axes' = AxesInt(input_subbatch_dim)
  /\ new_out_axes' = FALSE
  /\ IF running_init
     THEN /\ callee' = "module"
          /\ fn_calls' = Append(fn_calls, batched \o nonbatched)
          /\ returned' = Unset
          /\ pc' = "done"
          /\ error' = error
     ELSE IF Len(batched) = 0
     THEN /\ pc' = "raised"
          /\ error' = "AssertionError"
          /\ callee' = "module"
          /\ UNCHANGED << fn_calls, returned >>
     ELSE /\ callee' = "run_module"
          /\ pc' = "returned_mapped_fn"
          /\ error' = error
          /\ UNCHANGED << fn_calls, returned >>

\* inference_subbatch(module, subbatch_size, batched_args, nonbatched_args,
\* input_subbatch_dim, output_subbatch_dim=None).
inference_subbatch(subbatch_size, batched, nonbatched, input_subbatch_dim) ==
  /\ args' = batched
  /\ nonbatched_args' = nonbatched
  /\ IF Len(batched) = 0
     THEN /\ pc' = "raised"
          /\ error' = "AssertionError"
          /\ callee' = "module"
          /\ shard_size' = PyInt(subbatch_size)
          /\ in_axes' = AxesInt(input_subbatch_dim)
          /\ out_axes' = AxesInt(input_subbatch_dim)
          /\ new_out_axes' = FALSE
          /\ UNCHANGED << fn_calls, returned >>
     ELSE IF running_init
     THEN /\ callee' = "module"
          /\ fn_calls' = Append(fn_calls, batched \o nonbatched)
          /\ returned' = Fn(fnKind', (batched \o nonbatched)[1],
                            (batched \o nonbatched)[2])
          /\ pc' = "done"
          /\ error' = error
          /\ shard_size' = PyInt(subbatch_size)
          /\ in_axes' = AxesInt(input_subbatch_dim)
          /\ out_axes' = AxesInt(input_subbatch_dim)
          /\ new_out_axes' = FALSE
     ELSE /\ callee' = "run_module"
          /\ sharded_apply(PyInt(subbatch_size), AxesInt(input_subbatch_dim),
                           AxesInt(input_subbatch_dim), FALSE)
          /\ UNCHANGED << fn_calls, returned >>

\* A caller builds sharded_apply(fn, ...) for a function of (x, b) with x
\* mapped on axis 0 and b broadcast.
CallShardedApply ==
  /\ pc = "idle"
  /\ \E kind \in FnKinds, n \in 1..MaxBatch, bc \in Broadcasts,
        noa \in BOOLEAN,
        ss \in {None} \cup {PyInt(k) : k \in 1..MaxShard} :
       \E x \in Inputs(n) :
         /\ entry' = "sharded_apply"
         /\ fnKind' = kind
         /\ callee' = "fn"
         /\ args' = << x, bc >>
         /\ nonbatched_args' = <<>>
         /\ sharded_apply(ss, AxesTree(<< PyInt(0), None >>), AxesInt(0), noa)
  /\ UNCHANGED << running_init, plan, probe, loop, logs, returned >>

\* A caller builds sharded_map(fn, ...) for a per-row function; its vmap is
\* the pointwise function of the batch.
CallShardedMap ==
  /\ pc = "idle"
  /\ \E n \in 1..MaxBatch, bc \in Broadcasts,
        ss \in {None} \cup {PyInt(k) : k \in 1..MaxShard} :
       \E x \in Inputs(n) :
         /\ entry' = "sharded_map"
         /\ fnKind' = "pointwise"
         /\ args' = << x, bc >>
         /\ nonbatched_args' = <<>>
         /\ sharded_map(ss, AxesTree(<< PyInt(0), None >>), AxesInt(0))
  /\ UNCHANGED << running_init, plan, probe, loop, logs, returned >>

\* A caller runs inference_subbatch(module, subbatch_size, batched_args,
\* nonbatched_args) with one batched argument, or none.
CallInferenceSubbatch ==
  /\ pc = "idle"
  /\ \E kind \in FnKinds, n \in 1..MaxBatch, bc \in Broadcasts,
        ss \in 1..MaxShard :
       \E batched \in {<<>>} \cup { << x >> : x \in Inputs(n) } :
         /\ entry' = "inference_subbatch"
         /\ fnKind' = kind
         /\ inference_subbatch(ss, batched, << bc >>, 0)
  /\ UNCHANGED << running_init, plan, probe, loop, probes, shards, scans >>

\* The caller calls the callable it got back, when that is fun itself (fn,
\* or the plain hk.vmap of it): one invocation on the whole batch.
CallFun ==
  /\ pc = "returned_fun"
  /\ fn_calls' = Append(fn_calls, args)
  /\ returned' = fun(args)
  /\ pc' = "done"
  /\ UNCHANGED << running_init, config, plan, probe, loop, probes, shards,
                  scans, error >>

\* ----------------------------------------------------------- mapped_fn
\* Expand in axes and determine loop range.
Plan ==
  /\ pc = "returned_mapped_fn"
  /\ in_axes_' = _expand_axes(in_axes, args)
  /\ in_size' = MaxOf([k \in 1..Len(args) |->
                         _maybe_get_size(args[k], in_axes_'[k])])
  /\ num_extra_shards' = num_extra_shards_of(in_size', shard_size.v)
  /\ last_shard_size' = last_shard_size_of(in_size', shard_size.v)
  /\ pc' = "planned"
  /\ UNCHANGED << running_init, config, probe, loop, logs, returned, error >>

\* The hk.eval_shape probes and the output shapes.
Probe ==
  /\ pc = "planned"
  /\ LET remainder_shape_dtype == eval_shape(0, last_shard_size)
         regular_shard_shape_dtype == eval_shape(0, shard_size.v)
         axes == _expand_axes(out_axes, << remainder_shape_dtype >>)
     IN /\ out_dtypes' = remainder_shape_dtype.dtype
        /\ out_axes_' = axes
        /\ IF num_extra_shards > 0
           THEN /\ out_shapes' = make_output_shape(
                                   axes[1].v, regular_shard_shape_dtype.shape,
                                   remainder_shape_dtype.shape)
                /\ probes' = probes \o << << 0, last_shard_size >>,
                                          << 0, shard_size.v >> >>
           ELSE /\ out_shapes' = remainder_shape_dtype.shape
                /\ probes' = Append(probes, << 0, last_shard_size >>)
  /\ pc' = "probed"
  /\ UNCHANGED << running_init, config, plan, loop, shards, fn_calls, scans,
                  returned, error >>

\* slice_starts and the zero-filled output buffer.
Allocate ==
  /\ pc = "probed"
  /\ slice_starts' = slice_starts_of(in_size, shard_size.v)
  /\ outputs' = [dtype |-> out_dtypes, shape |-> out_shapes,
                 data |-> zeros(out_shapes)]
  /\ pc' = "allocated"
  /\ UNCHANGED << running_init, config, plan, probe, scan_i, logs, returned,
                  error >>

\* Variant: hk.scan is called without the test for an empty slice_starts.
EnterScan_unguarded ==
  /\ pc = "allocated"
  /\ scans' = Append(scans, slice_starts)
  /\ IF Len(slice_starts) > 0
     THEN scan_i' = 1 /\ pc' = "scan"
     ELSE scan_i' = scan_i /\ pc' = "scanned"
  /\ UNCHANGED << running_init, config, plan, probe, slice_starts, outputs,
                  probes, shards, fn_calls, returned, error >>

\* if slice_starts.shape[0] > 0: hk.scan(scan_iteration, outputs, slice_starts)
EnterScan ==
  /\ pc = "allocated"
  /\ IF Len(slice_starts) > 0
     THEN /\ scans' = Append(scans, slice_starts)
          /\ scan_i' = 1
          /\ pc' = "scan"
     ELSE /\ scans' = scans
          /\ scan_i' = scan_i
          /\ pc' = "scanned"
  /\ UNCHANGED << running_init, config, plan, probe, slice_starts, outputs,
                  probes, shards, fn_calls, returned, error >>

\* One step of hk.scan: scan_iteration(outputs, slice_starts[scan_i]).
scan_iteration ==
  /\ pc = "scan"
  /\ scan_i <= Len(slice_starts)
  /\ outputs' = compute_shard(outputs, slice_starts[scan_i], shard_size.v)
  /\ shards' = Append(shards, << slice_starts[scan_i], shard_size.v >>)
  /\ fn_calls' = Append(fn_calls,
                   run_module(input_slice(slice_starts[scan_i], shard_size.v)))
  /\ scan_i' = scan_i + 1
  /\ pc' = IF scan_i = Len(slice_starts) THEN "scanned" ELSE "scan"
  /\ UNCHANGED << running_init, config, plan, probe, slice_starts, probes,
                  scans, returned, error >>

\* The remainder shard, if any, and the return.
Remainder ==
  /\ pc = "scanned"
  /\ IF last_shard_size # shard_size.v
     THEN LET remainder_start == in_size - last_shard_size
          IN /\ outputs' = compute_shard(outputs, remainder_start,
                                         last_shard_size)
             /\ shards' = Append(shards,
                                 << remainder_start, last_shard_size >>)
             /\ fn_calls' = Append(fn_calls,
                   run_module(input_slice(remainder_start, last_shard_size)))
     ELSE UNCHANGED << outputs, shards, fn_calls >>
  /\ returned' = outputs'
  /\ pc' = "done"
  /\ UNCHANGED << running_init, config, plan, probe, slice_starts, scan_i,
                  probes, scans, error >>

Next ==
  \/ CallShardedApply
  \/ CallShardedMap
  \/ CallInferenceSubbatch
  \/ CallFun
  \/ Plan
  \/ Probe
  \/ Allocate
  \/ EnterScan
  \/ scan_iteration
  \/ Remainder

Spec == Init /\ [][Next]_vars

\* =============================================================== claims
\* The batched array, the broadcast argument and the batch size of the call.
BatchedArg == args[1]
BroadcastArg ==
  IF entry = "inference_subbatch" THEN nonbatched_args[1] ELSE args[2]
BatchSize == Len(args[1])

\* mapped_fn has been entered (its planning step has run).
InMappedFn == pc \in {"planned", "probed", "allocated", "scan", "scanned"}
RanMappedFn == InMappedFn \/ (pc = "done" /\ in_axes_ # <<>>)
Allocated == pc \in {"allocated", "scan", "scanned"}
               \/ (pc = "done" /\ in_axes_ # <<>>)

\* fn on any slice of x is that slice of fn on the whole of x.
ActsIndependently(kind, x, b) ==
  \A st \in 0..(Len(x) - 1) : \A sz \in 1..(Len(x) - st) :
    FnData(kind, SubSeq(x, st + 1, st + sz), b)
      = SubSeq(FnData(kind, x, b), st + 1, st + sz)

\* fn returns as many rows as it is given.
SizePreserving(kind, x, b) ==
  \A sz \in 1..Len(x) : Len(FnData(kind, SubSeq(x, 1, sz), b)) = sz

\* The smallest q with q * s >= n.
Ceil(n, s) == CHOOSE q \in 0..n : q * s >= n /\ (q - 1) * s < n

\* The shard sequence the specification describes: the full shards at
\* 0, s, 2s, ... up to n - s, then the remainder shard iff n mod s # 0.
ExpectedShards(n, s) ==
  LET full == { k \in 0..n : k * s <= n - s }
      r == n % s
  IN [k \in 1..Cardinality(full) |-> << (k - 1) * s, s >>]
       \o (IF r # 0 THEN << << n - r, r >> >> ELSE <<>>)

IsPrefix(p, q) == Len(p) <= Len(q) /\ p = SubSeq(q, 1, Len(p))

\* The ranges are non-empty, contiguous from 0 and end at n.
IsPartition(ranges, n) ==
  /\ Len(ranges) >= 1
  /\ ranges[1][1] = 0
  /\ \A k \in 1..Len(ranges) : ranges[k][2] > 0
  /\ \A k \in 1..(Len(ranges) - 1) :
       ranges[k + 1][1] = ranges[k][1] + ranges[k][2]
  /\ ranges[Len(ranges)][1] + ranges[Len(ranges)][2] = n

\* C1: for every batch_size >= 1, every integer shard_size >= 1 and every fn
\* that acts independently on each batch element, the callable returned by
\* sharded_apply(fn, shard_size) returns exactly fn(x) on the whole batch.
C1_ShardedEqualsFullBatch ==
  ( /\ pc = "done"
    /\ entry = "sharded_apply"
    /\ shard_size # None
    /\ ActsIndependently(fnKind, args[1], args[2]) )
  => returned = Fn(fnKind, args[1], args[2])

C1_Witness ==
  /\ pc = "done"
  /\ entry = "sharded_apply"
  /\ shard_size = PyInt(3)
  /\ BatchSize = 10
  /\ ActsIndependently(fnKind, args[1], args[2])
  /\ Len(shards) = 4
  /\ returned = Fn(fnKind, args[1], args[2])

\* C2: the slices mapped_fn executes fn on are, in this order, the full
\* shards (0,s),(s,s),... for every start <= batch_size - s, then one
\* remainder slice (batch_size - r, r) iff r = batch_size mod s # 0; at
\* every moment the executed slices are a prefix of that sequence, and at the
\* return they are non-empty, contiguous, disjoint and cover [0, batch_size);
\* 10/3 gives [0,3),[3,6),[6,9),[9,10) and 9/3 gives [0,3),[3,6),[6,9).
C2_ShardSequence ==
  RanMappedFn =>
    /\ IsPrefix(shards, ExpectedShards(BatchSize, shard_size.v))
    /\ pc = "done" =>
         /\ shards = ExpectedShards(BatchSize, shard_size.v)
         /\ IsPartition(shards, BatchSize)
         /\ (BatchSize = 10 /\ shard_size.v = 3) =>
              shards = << <<0, 3>>, <<3, 3>>, <<6, 3>>, <<9, 1>> >>
         /\ (BatchSize = 9 /\ shard_size.v = 3) =>
              shards = << <<0, 3>>, <<3, 3>>, <<6, 3>> >>

C2_Witness ==
  /\ pc = "done"
  /\ RanMappedFn
  /\ BatchSize = 10
  /\ shard_size = PyInt(3)
  /\ shards = << <<0, 3>>, <<3, 3>>, <<6, 3>>, <<9, 1>> >>

\* C3: for shard_size from 1 to batch_size the allocated (and returned)
\* buffer has mapped-axis size full-shard output size * num_extra_shards +
\* remainder-shard output size, which is batch_size when fn returns as many
\* rows as it is given; the other axes and the dtype are the probed ones.
C3_OutputShape ==
  (Allocated /\ shard_size.v <= BatchSize) =>
    LET s == shard_size.v
        full == Fn(fnKind, SubSeq(BatchedArg, 1, s), BroadcastArg)
        rem == Fn(fnKind, SubSeq(BatchedArg, 1, last_shard_size), BroadcastArg)
    IN /\ outputs.shape[1] = full.shape[1] * num_extra_shards + rem.shape[1]
       /\ Len(outputs.data) = outputs.shape[1]
       /\ SizePreserving(fnKind, BatchedArg, BroadcastArg) =>
            outputs.shape[1] = BatchSize
       /\ Tail(outputs.shape) = Tail(rem.shape)
       /\ outputs.dtype = rem.dtype
       /\ pc = "done" => returned.shape = outputs.shape
                           /\ returned.dtype = outputs.dtype

C3_Witness ==
  /\ pc = "done"
  /\ RanMappedFn
  /\ BatchSize = 10
  /\ shard_size = PyInt(4)
  /\ SizePreserving(fnKind, BatchedArg, BroadcastArg)
  /\ num_extra_shards = 2
  /\ returned.shape[1] = 10

\* C4: new_out_axes=True makes sharded_apply raise NotImplementedError before
\* fn is invoked or probed and before any shard runs, for every fn and every
\* shard_size, None included.
C4_NewOutAxesRaises ==
  new_out_axes =>
    /\ pc = "raised"
    /\ error = "NotImplementedError"
    /\ fn_calls = <<>>
    /\ probes = <<>>
    /\ shards = <<>>
    /\ scans = <<>>
    /\ returned = Unset

C4_Witness ==
  /\ new_out_axes
  /\ shard_size = None
  /\ pc = "raised"
  /\ error = "NotImplementedError"

\* C5: every invocation of fn / module, full shard or remainder, receives
\* the broadcast (or non-batched) argument whole and unmodified, and the
\* batched argument sliced to [start, start + size).
C5_BroadcastPassedWhole ==
  /\ \A k \in 1..Len(fn_calls) :
       /\ Len(fn_calls[k]) = 2
       /\ fn_calls[k][2] = BroadcastArg
  /\ RanMappedFn =>
       /\ Len(fn_calls) = Len(shards)
       /\ \A k \in 1..Len(fn_calls) :
            fn_calls[k][1] = SubSeq(BatchedArg, shards[k][1] + 1,
                                    shards[k][1] + shards[k][2])

C5_Witness ==
  /\ pc = "done"
  /\ RanMappedFn
  /\ entry = "inference_subbatch"
  /\ BatchSize = 7
  /\ shard_size = PyInt(3)
  /\ Len(fn_calls) = 3
  /\ \A k \in 1..3 : fn_calls[k][2] = nonbatched_args[1]
  /\ fn_calls[3][1] = SubSeq(BatchedArg, 7, 7)

\* C6: in initialisation mode sharded_map and inference_subbatch never enter
\* the shard executor, whatever the shard size: sharded_map returns the plain
\* hk.vmap, and a completed call has invoked the function exactly once on
\* (batched_args, nonbatched_args), with a result that does not depend on
\* the shard size.
C6_InitBypassesSharding ==
  (running_init /\ entry \in {"sharded_map", "inference_subbatch"}) =>
    /\ pc \in {"returned_fun", "done", "raised"}
    /\ in_axes_ = <<>>
    /\ probes = <<>> /\ shards = <<>> /\ scans = <<>>
    /\ outputs = Unset
    /\ entry = "sharded_map" =>
         callee = "hk.vmap(split_rng=False)" /\ pc # "raised"
    /\ pc = "done" =>
         /\ fn_calls = << << BatchedArg, BroadcastArg >> >>
         /\ returned = Fn(fnKind, BatchedArg, BroadcastArg)

C6_Witness ==
  /\ running_init
  /\ entry = "sharded_map"
  /\ shard_size = PyInt(3)
  /\ BatchSize = 10
  /\ pc = "done"
  /\ Len(fn_calls) = 1

\* C7: sharded_apply(fn, shard_size=None) with new_out_axes false returns fn
\* itself: calling the result invokes fn once on the full batch, with no
\* axis normalisation, planning, probing or buffer allocation.
C7_NoneReturnsFn ==
  (pc # "idle" /\ shard_size = None /\ ~new_out_axes) =>
    /\ pc \in {"returned_fun", "done"}
    /\ entry = "sharded_apply" => callee = "fn"
    /\ in_axes_ = <<>> /\ in_size = 0
    /\ probes = <<>> /\ shards = <<>> /\ scans = <<>>
    /\ outputs = Unset
    /\ pc = "returned_fun" => fn_calls = <<>>
    /\ pc = "done" =>
         /\ fn_calls = << args >>
         /\ returned = Fn(fnKind, args[1], args[2])

C7_Witness ==
  /\ entry = "sharded_apply"
  /\ shard_size = None
  /\ ~new_out_axes
  /\ ~running_init
  /\ pc = "done"
  /\ BatchSize = 10
  /\ fn_calls = << args >>

\* C8: inference_subbatch with an empty batched_args fails its precondition
\* check at once, in initialisation mode and in normal mode, without
\* invoking module.
C8_EmptyBatchedArgsFails ==
  (entry = "inference_subbatch" /\ args = <<>>) =>
    /\ pc = "raised"
    /\ error = "AssertionError"
    /\ fn_calls = <<>>
    /\ probes = <<>> /\ shards = <<>> /\ scans = <<>>
    /\ returned = Unset

C8_Witness ==
  /\ entry = "inference_subbatch"
  /\ args = <<>>
  /\ running_init
  /\ pc = "raised"
  /\ error = "AssertionError"

\* C9 as stated: whenever batch_size <= shard_size the scan is skipped
\* entirely and the single shard, the whole batch, is the remainder shard;
\* and the scan is never invoked with an empty index range.
C9_ScanSkippedWhenBatchFits ==
  /\ \A k \in 1..Len(scans) : Len(scans[k]) > 0
  /\ (RanMappedFn /\ BatchSize <= shard_size.v) =>
       /\ scans = <<>>
       /\ pc = "done" => shards = << << 0, BatchSize >> >>

\* C9 amended: whenever batch_size < shard_size the scan is skipped and the
\* whole batch is executed as the single remainder shard; when batch_size =
\* shard_size the scan runs exactly one full shard, the whole batch, and no
\* remainder shard follows; the scan is never invoked with an empty range.
C9_ScanSkippedWhenBatchSmaller ==
  /\ \A k \in 1..Len(scans) : Len(scans[k]) > 0
  /\ (RanMappedFn /\ BatchSize < shard_size.v) =>
       /\ scans = <<>>
       /\ pc \in {"allocated", "scanned"} => shards = <<>>
       /\ pc = "done" => shards = << << 0, BatchSize >> >>
  /\ (RanMappedFn /\ BatchSize = shard_size.v) =>
       /\ pc \in {"scan", "scanned", "done"} => scans = << << 0 >> >>
       /\ pc \in {"scanned", "done"} => shards = << << 0, BatchSize >> >>

C9_Witness ==
  /\ pc = "done"
  /\ RanMappedFn
  /\ BatchSize = 4
  /\ shard_size = PyInt(7)
  /\ scans = <<>>
  /\ shards = << << 0, 4 >> >>

\* C10: the plan satisfies batch_size = num_extra_shards * shard_size +
\* last_shard_size with 0 < last_shard_size <= shard_size, where
\* num_extra_shards is ceil(batch_size / shard_size) - 1 when batch_size >
\* shard_size, else 0, and last_shard_size is batch_size mod shard_size,
\* remapped to shard_size when that is zero.
C10_PlanInvariant ==
  RanMappedFn =>
    LET n == BatchSize
        s == shard_size.v
    IN /\ in_size = n
       /\ n = num_extra_shards * s + last_shard_size
       /\ 0 < last_shard_size /\ last_shard_size <= s
       /\ num_extra_shards = (IF n > s THEN Ceil(n, s) - 1 ELSE 0)
       /\ last_shard_size = (IF n % s = 0 THEN s ELSE n % s)

C10_Witness ==
  /\ pc = "planned"
  /\ BatchSize = 9
  /\ shard_size = PyInt(3)
  /\ num_extra_shards = 2
  /\ last_shard_size = 3

====
